---- MODULE Spec2Model ----
(***************************************************************************)
(* Model of the health aggregation and caching engine of rust-actuator     *)
(* (src/actuator/src/lib.rs): the cache-or-recompute decision of           *)
(* InnerHealth::get, the probe fan-out of get_health_and_cache_if_success  *)
(* and the cache store guarded by a RwLock.  Time is an integer clock,     *)
(* UNIX_EPOCH is 0.  Spec is the engine under concurrent health() calls;   *)
(* CacheSpec and EnvSpec evaluate get_from_cache and the metadata readers  *)
(* of src/actuator/src/env.rs on their own inputs.                         *)
(***************************************************************************)
EXTENDS Integers, Sequences, FiniteSets, TLC

\* ---------------------------------------------------------------- bounds
\* number of health() calls a behaviour may make
MaxCalls == 2
\* last reading of the clock
MaxTime == 2

\* ------------------------------------------------------------- constants
\* SystemTime::UNIX_EPOCH, the 'never computed' sentinel
UNIX_EPOCH == 0
\* Duration::MAX: larger than every elapsed time the clock can produce
DurationMax == MaxTime + 1

Max(S) == CHOOSE x \in S : \A y \in S : y <= x

\* ------------------------------------------------------------ the inputs
\* HealthChecker: key and mandatory flag (the callable is the environment)
Checker(k, m) == [key |-> k, is_mandatory |-> m]

\* the checker lists of the configurations explored; keys may repeat,
\* since nothing in the code rejects a duplicate key
CheckerLists ==
    { <<>>,
      << Checker("db", TRUE) >>,
      << Checker("cache", FALSE) >>,
      << Checker("db", TRUE), Checker("cache", FALSE) >>,
      << Checker("db", TRUE), Checker("db", FALSE) >> }

\* the longest checker list explored
MaxCheckers == Max({Len(cs) : cs \in CheckerLists})

\* cache_duration values: zero, one tick, and Duration::MAX
Durations == {0, 1, DurationMax}

\* HealthConfig
Configs ==
    { [cache_duration |-> d, timeout |-> 1, checkers |-> cs] :
        d \in Durations, cs \in CheckerLists }

\* ActuatorError.details of a failing probe
Msgs == {"", "conn refused"}

\* what one probe future yields when it completes: Ok(()) or
\* Err(ActuatorError{details})
ResOk == [kind |-> "ok", details |-> ""]
ResErr(m) == [kind |-> "err", details |-> m]
ProbeResults == {ResOk} \cup {ResErr(m) : m \in Msgs}
\* a future that has been created and has not completed: it will complete
\* (pending), or it stays pending for ever (never)
FutPending == [kind |-> "pending", details |-> ""]
FutNever == [kind |-> "never", details |-> ""]
Futures == {FutPending, FutNever}

CallIds == 1..MaxCalls

\* the callers of health() (tasks on the thread that owns the Actuator, which
\* is neither Send nor Sync), each one call at a time
Callers == {"t1", "t2"}

\* the readings of the clock, all after UNIX_EPOCH
Times == 1..MaxTime

\* ----------------------------------------------------------------- state
VARIABLES
    cfg,      \* InnerHealth.cfg, fixed at construction
    health,   \* InnerHealth.health: [last_check_stamp, data]
    readers,  \* the callers holding the read lock of InnerHealth.health
    now,      \* the last reading of SystemTime::now()
    calls,    \* the health() calls, by call id
    eval      \* one evaluation of a function on its own: input and output

vars == <<cfg, health, readers, now, calls, eval>>

\* a health() call that has not been made yet
IdleCall ==
    [status |-> "idle", start |-> 0, hit |-> FALSE, prior |-> {},
     invoked |-> <<>>, order |-> <<>>, results |-> <<>>, infos |-> <<>>,
     ret_data |-> <<>>, ret_ok |-> FALSE]

NumCheckers == Len(cfg.checkers)

\* ------------------------------------------------------- pure operations
\* now.duration_since(stamp).unwrap_or_else(|_| Duration::MAX)
Elapsed(t, stamp) == IF t >= stamp THEN t - stamp ELSE DurationMax

\* InnerHealth::get_from_cache: Some(data) iff the elapsed time since
\* last_check_stamp is at most cache_duration
get_from_cache(h, t, c) ==
    IF Elapsed(t, h.last_check_stamp) <= c.cache_duration
    THEN [some |-> TRUE, data |-> h.data]
    ELSE [some |-> FALSE, data |-> <<>>]

\* the for loop of get_health_and_cache_if_success: (checker.func)() is
\* called once per checker, in config order, before anything is awaited
InvokeAll(cs) == [i \in 1..Len(cs) |-> i]

\* result.err().unwrap(): panics when the probe returned Ok
ErrUnwrapPanics(result) == result.kind = "ok"

\* the HealthInfo a task builds from its probe's result
TaskInfo(checker, result) ==
    [key |-> checker.key,
     is_mandatory |-> checker.is_mandatory,
     success |-> (result.kind = "ok"),
     error |-> result.details]

Min(S) == CHOOSE x \in S : \A y \in S : x <= y

\* a map in which the first entry with a key stays
CollectFirst(cs, infos) ==
    [k \in {cs[i].key : i \in 1..Len(cs)} |->
        infos[Min({i \in 1..Len(cs) : cs[i].key = k})]]

\* results.into_iter().map(|info| (info.key.clone(), info)).collect():
\* join_all yields the infos in config order, a later insert of the same
\* key replaces the earlier one
Collect(cs, infos) ==
    [k \in {cs[i].key : i \in 1..Len(cs)} |->
        infos[Max({i \in 1..Len(cs) : cs[i].key = k})]]

\* new_data.values().filter(|info| info.is_mandatory).all(|info| info.success)
Overall(data) ==
    \A k \in DOMAIN data : data[k].is_mandatory => data[k].success

\* the calls that are under way: each occupies one caller
\* a store that takes the infos of a run once all its tasks are done
PublishComplete(h, infos, t) ==
    IF DOMAIN infos = 1..NumCheckers
    THEN [last_check_stamp |-> t,
          data |-> [k \in {infos[i].key : i \in DOMAIN infos} |->
                      infos[Max({i \in DOMAIN infos : infos[i].key = k})]]]
    ELSE h

\* the store after a poll of get_health_and_cache_if_success at clock t,
\* when the tasks done so far have built infos: the function reads self.cfg
\* and returns (new_data, ok); it has no statement that writes self.health
StoreAfterPoll(h, infos, t) == h

\* the outputs in the order the tasks completed
JoinUnordered(infos, order) == [i \in 1..Len(order) |-> infos[order[i]]]

\* join_all(tasks).await (line 212): the outputs of the tasks in the order
\* of the tasks, whatever the order they completed in
JoinAll(infos, order) == [i \in 1..Len(order) |-> infos[i]]

\* the callers that hold the write guard of the store: lib.rs has no call
\* of RwLock::write, so no caller ever does
writers == {}

\* a read guard that outlives get_from_cache
KeepRead(rs, c) == rs

\* RwLock::read of get_from_cache (line 187): c holds a read guard; the code
\* never asks for the write lock, so the lock's state is its set of readers
AcquireRead(rs, c) == rs \cup {c}

\* the guard `health` of get_from_cache goes out of scope when the function
\* returns (line 194), before get looks at the Option
ReleaseRead(rs, c) == rs \ {c}

InFlight == {c \in CallIds : calls[c].status \in {"reading", "running"}}

\* the calls that have ended, with a return value or with a panic
Ended == {c \in CallIds : calls[c].status \in {"returned", "panicked"}}

\* ------------------------------------------------- functions on their own
\* the store of a freshly built InnerHealth
NewHealth == [last_check_stamp |-> UNIX_EPOCH, data |-> <<>>]

\* no function is being evaluated on its own
NoEval ==
    [op |-> "none", done |-> FALSE, h |-> NewHealth, t |-> 1, d |-> 0,
     cached |-> [some |-> FALSE, data |-> <<>>]]

\* the clock readings given to get_from_cache on its own: one of them is
\* before UNIX_EPOCH
EvalTimes == -1..MaxTime

\* a non-empty stored map
SampleData ==
    [k \in {"db"} |->
        [key |-> "db", is_mandatory |-> TRUE, success |-> FALSE,
         error |-> "conn refused"]]

\* the arguments get_from_cache is evaluated on
CacheInputs ==
    { [op |-> "get_from_cache", done |-> FALSE,
       h |-> [last_check_stamp |-> stamp, data |-> data], t |-> t, d |-> d,
       cached |-> [some |-> FALSE, data |-> <<>>]] :
        stamp \in 0..MaxTime, data \in {<<>>, SampleData},
        t \in EvalTimes, d \in Durations }

\* ------------------------------------------------------------------ Init
\* Actuator::new / InnerHealth::new: the store holds the sentinel stamp and
\* an empty map
Init ==
    /\ cfg \in Configs
    /\ health = NewHealth
    /\ readers = {}
    /\ now = 1
    /\ calls = [c \in CallIds |-> IdleCall]
    /\ eval = NoEval

\* --------------------------------------------------------------- actions
\* Actuator::health -> InnerHealth::get -> get_from_cache, first line:
\* the caller takes the read lock (no writer exists to wait for).  Call ids
\* are given out in the order the calls begin, and a call needs a caller
\* that is not inside another call.
Begin(c) ==
    /\ calls[c].status = "idle"
    /\ \A d \in CallIds : d < c => calls[d].status # "idle"
    /\ Cardinality(InFlight) < Cardinality(Callers)
    /\ readers' = AcquireRead(readers, c)
    /\ calls' = [calls EXCEPT ![c].status = "reading"]
    /\ UNCHANGED <<cfg, health, now, eval>>

\* the rest of get_from_cache and of the first poll of get, with the clock
\* reading t: compare and copy under the read lock, release it; on a hit
\* return (data, true); on a miss call every probe function and start
\* awaiting the futures (with no checker at all join_all is ready at once)
GetFromCache(c, t) ==
    /\ calls[c].status = "reading"
    /\ t >= now
    /\ now' = t
    /\ readers' = ReleaseRead(readers, c)
    /\ LET cached == get_from_cache(health, t, cfg)
           base == [calls[c] EXCEPT !.start = t, !.prior = Ended]
       IN  IF cached.some
           THEN calls' = [calls EXCEPT ![c] =
                    [base EXCEPT !.status = "returned", !.hit = TRUE,
                                 !.ret_data = cached.data, !.ret_ok = TRUE]]
           ELSE \E rs \in [1..NumCheckers -> Futures] :
                  LET run == [base EXCEPT !.invoked = InvokeAll(cfg.checkers),
                                          !.results = rs]
                  IN  IF NumCheckers = 0
                      THEN calls' = [calls EXCEPT ![c] =
                               [run EXCEPT !.status = "returned",
                                           !.ret_data = Collect(cfg.checkers, <<>>),
                                           !.ret_ok = Overall(Collect(cfg.checkers, <<>>))]]
                      ELSE calls' = [calls EXCEPT ![c] =
                               [run EXCEPT !.status = "running"]]
    /\ health' = IF get_from_cache(health, t, cfg).some \/ NumCheckers # 0
                 THEN health
                 ELSE StoreAfterPoll(health, <<>>, t)
    /\ UNCHANGED <<cfg, eval>>

\* the future of probe i of call c completes with result r and its task is
\* polled: the task builds its HealthInfo, or panics in err().unwrap() and
\* the unwinding drops the other tasks and their outputs; when the last
\* task is done join_all is ready and the call returns (new_data, ok)
\* (order is the completion order inside the join_all future, which is gone
\* once the future is ready)
Complete(c, i, r) ==
    /\ calls[c].status = "running"
    /\ i \in 1..NumCheckers
    /\ calls[c].results[i] = FutPending
    /\ LET results == [calls[c].results EXCEPT ![i] = r]
           order == Append(calls[c].order, i)
       IN  IF ErrUnwrapPanics(r)
           THEN /\ calls' = [calls EXCEPT ![c] =
                      [calls[c] EXCEPT !.status = "panicked",
                                       !.results = results,
                                       !.order = <<>>,
                                       !.infos = <<>>]]
                /\ health' = health
           ELSE LET infos == [j \in DOMAIN calls[c].infos \cup {i} |->
                                IF j = i THEN TaskInfo(cfg.checkers[i], r)
                                         ELSE calls[c].infos[j]]
                    new_data == Collect(cfg.checkers, JoinAll(infos, order))
                IN  /\ IF DOMAIN infos = 1..NumCheckers
                       THEN calls' = [calls EXCEPT ![c] =
                                [calls[c] EXCEPT !.results = results,
                                                 !.order = <<>>,
                                                 !.infos = infos,
                                                 !.status = "returned",
                                                 !.ret_data = new_data,
                                                 !.ret_ok = Overall(new_data)]]
                       ELSE calls' = [calls EXCEPT ![c] =
                                [calls[c] EXCEPT !.results = results,
                                                 !.order = order,
                                                 !.infos = infos]]
                    /\ health' = StoreAfterPoll(health, infos, now)
    /\ UNCHANGED <<cfg, readers, now, eval>>

Next ==
    \/ \E c \in CallIds : Begin(c)
    \/ \E c \in CallIds, t \in Times : GetFromCache(c, t)
    \/ \E c \in CallIds, i \in 1..MaxCheckers, r \in ProbeResults : Complete(c, i, r)

Spec == Init /\ [][Next]_vars

\* the scheduling: an executor polls a task whose future is ready, and a
\* caller that has the lock goes on
FairSpec ==
    /\ Spec
    /\ \A c \in CallIds : WF_vars(\E t \in Times : GetFromCache(c, t))
    /\ \A c \in CallIds, i \in 1..MaxCheckers :
         WF_vars(\E r \in ProbeResults : Complete(c, i, r))

\* get_from_cache evaluated on its own arguments
CacheInit ==
    /\ cfg = [cache_duration |-> 0, timeout |-> 1, checkers |-> <<>>]
    /\ health = NewHealth
    /\ readers = {}
    /\ now = 1
    /\ calls = [c \in CallIds |-> IdleCall]
    /\ eval \in CacheInputs

EvalGetFromCache ==
    /\ eval.op = "get_from_cache"
    /\ ~eval.done
    /\ eval' = [eval EXCEPT
                  !.done = TRUE,
                  !.cached = get_from_cache(eval.h, eval.t,
                                            [cache_duration |-> eval.d])]
    /\ UNCHANGED <<cfg, health, readers, now, calls>>

CacheNext == EvalGetFromCache

CacheSpec == CacheInit /\ [][CacheNext]_vars

\* ------------------------------------------- the metadata readers (env.rs)
\* the environment variables the readers look up
EnvNames == {"VERGEN_BUILD_TIMESTAMP", "VERGEN_GIT_COMMIT_TIMESTAMP",
             "VERGEN_GIT_SHA", "VERGEN_GIT_BRANCH", "VERGEN_RUSTC_SEMVER",
             "VERGEN_CARGO_PROFILE", "VERGEN_SYSINFO_OS_VERSION",
             "VERGEN_SYSINFO_CPU_BRAND"}

\* what the process environment holds for one name: nothing, a value that is
\* valid Unicode, or a value that is not (an OsString no String equals)
EnvUnset == [kind |-> "unset", val |-> ""]
EnvUnicode(v) == [kind |-> "unicode", val |-> v]
EnvNotUnicode == [kind |-> "not_unicode", val |-> "<FF>"]
EnvValues == {EnvUnset, EnvUnicode("a"), EnvNotUnicode}
Envs == [EnvNames -> EnvValues]

\* std::env::var: Ok with the value when it is set and valid Unicode,
\* Err(NotPresent) or Err(NotUnicode) otherwise
env_var(env, name) ==
    IF env[name].kind = "unicode"
    THEN [ok |-> TRUE, val |-> env[name].val]
    ELSE [ok |-> FALSE,
          val |-> IF env[name].kind = "unset" THEN "NotPresent"
                                              ELSE "NotUnicode"]

\* Result::unwrap_or_else(|_| String::from(""))
unwrap_or_empty(r) == IF r.ok THEN r.val ELSE ""

\* a reader that looks a fixed other name up
reads_git_sha(env) == unwrap_or_empty(env_var(env, "VERGEN_GIT_SHA"))

build_stamp(env) == unwrap_or_empty(env_var(env, "VERGEN_BUILD_TIMESTAMP"))
git_commit_stamp(env) ==
    unwrap_or_empty(env_var(env, "VERGEN_GIT_COMMIT_TIMESTAMP"))
git_commit_id(env) == unwrap_or_empty(env_var(env, "VERGEN_GIT_SHA"))
git_branch(env) == unwrap_or_empty(env_var(env, "VERGEN_GIT_BRANCH"))
rustc_version(env) == unwrap_or_empty(env_var(env, "VERGEN_RUSTC_SEMVER"))
cargo_profile(env) == unwrap_or_empty(env_var(env, "VERGEN_CARGO_PROFILE"))
os(env) == unwrap_or_empty(env_var(env, "VERGEN_SYSINFO_OS_VERSION"))
cpu(env) == unwrap_or_empty(env_var(env, "VERGEN_SYSINFO_CPU_BRAND"))

Readers == {"build_stamp", "git_commit_stamp", "git_commit_id", "git_branch",
            "rustc_version", "cargo_profile", "os", "cpu"}

EnvInputs == { [op |-> o, done |-> FALSE, env |-> e, str |-> ""] :
               o \in Readers, e \in Envs }

EnvInit ==
    /\ cfg = [cache_duration |-> 0, timeout |-> 1, checkers |-> <<>>]
    /\ health = NewHealth
    /\ readers = {}
    /\ now = 1
    /\ calls = [c \in CallIds |-> IdleCall]
    /\ eval \in EnvInputs

\* one call of the reader o, whose result is s
Read(o, s) ==
    /\ eval.op = o
    /\ ~eval.done
    /\ eval' = [eval EXCEPT !.done = TRUE, !.str = s]
    /\ UNCHANGED <<cfg, health, readers, now, calls>>

ReadBuildStamp == Read("build_stamp", build_stamp(eval.env))
ReadGitCommitStamp == Read("git_commit_stamp", git_commit_stamp(eval.env))
ReadGitCommitId == Read("git_commit_id", git_commit_id(eval.env))
ReadGitBranch == Read("git_branch", git_branch(eval.env))
ReadRustcVersion == Read("rustc_version", rustc_version(eval.env))
ReadCargoProfile == Read("cargo_profile", cargo_profile(eval.env))
ReadOs == Read("os", os(eval.env))
ReadCpu == Read("cpu", cpu(eval.env))

EnvNext ==
    \/ ReadBuildStamp
    \/ ReadGitCommitStamp
    \/ ReadGitCommitId
    \/ ReadGitBranch
    \/ ReadRustcVersion
    \/ ReadCargoProfile
    \/ ReadOs
    \/ ReadCpu

EnvSpec == EnvInit /\ [][EnvNext]_vars

TypeOK ==
    /\ cfg \in Configs
    /\ now \in 1..MaxTime
    /\ readers \subseteq CallIds
    /\ \A c \in CallIds :
         calls[c].status \in {"idle", "reading", "running", "returned", "panicked"}

\* ---------------------------------------------------------------- claims
\* the calls that have read the cache and found it stale
Missed == {c \in CallIds :
             calls[c].status \in {"running", "returned", "panicked"} /\ ~calls[c].hit}

\* the calls that recomputed the snapshot and returned it
Recomputed == {c \in CallIds : calls[c].status = "returned" /\ ~calls[c].hit}

\* the probes of a run whose future has completed with a result
Completed(c) == {i \in DOMAIN calls[c].results :
                   calls[c].results[i].kind \in {"ok", "err"}}

\* C1: with at least one mandatory probe, a health() call that recomputes
\* returns an overall flag, and the flag is false if and only if at least
\* one mandatory probe did not succeed.
C1_OverallIffMandatoryFailure ==
    \A c \in Ended \cap Missed :
        (\E i \in 1..NumCheckers : cfg.checkers[i].is_mandatory) =>
            /\ calls[c].status = "returned"
            /\ (calls[c].ret_ok = FALSE) <=>
                   (\E i \in 1..NumCheckers :
                        /\ cfg.checkers[i].is_mandatory
                        /\ calls[c].results[i].kind # "ok")

\* C2: when every probe is optional (or there is none), every health() call
\* reports overall == true whatever the probes yield, and every failure of
\* a probe is recorded in the results.
C2_OptionalNeverChangesOverall ==
    \A c \in Ended :
        (\A i \in 1..NumCheckers : ~cfg.checkers[i].is_mandatory) =>
            /\ calls[c].status = "returned"
            /\ calls[c].ret_ok = TRUE
            /\ \A i \in DOMAIN calls[c].results :
                   calls[c].results[i].kind = "err" =>
                       /\ cfg.checkers[i].key \in DOMAIN calls[c].ret_data
                       /\ ~calls[c].ret_data[cfg.checkers[i].key].success

\* the recomputations that call c found finished when it read the cache
PriorRecomputed(c) == calls[c].prior \cap Recomputed

\* the latest of them
LastRecomputed(c) ==
    {d \in PriorRecomputed(c) :
        \A e \in PriorRecomputed(c) : calls[e].start <= calls[d].start}

\* the calls that have gone past their cache check
Checked == {c \in CallIds : calls[c].status \in {"running", "returned", "panicked"}}

\* C3: a health() call made less than cache_duration after a call that
\* recomputed the snapshot invokes no probe and returns that snapshot.
C3_FreshHitRunsNoProbe ==
    \A c \in Checked :
        \A d \in LastRecomputed(c) :
            calls[c].start - calls[d].start < cfg.cache_duration =>
                /\ calls[c].invoked = <<>>
                /\ calls[c].status = "returned"
                /\ calls[c].ret_data = calls[d].ret_data

\* C4: a health() call made more than cache_duration after the last
\* recomputation invokes every configured probe again and returns the
\* results of its own run.
C4_StaleMissRecomputes ==
    \A c \in Checked :
        ( /\ PriorRecomputed(c) # {}
          /\ \A d \in PriorRecomputed(c) :
                 calls[c].start - calls[d].start > cfg.cache_duration ) =>
            /\ ~calls[c].hit
            /\ calls[c].invoked = [i \in 1..NumCheckers |-> i]
            /\ c \in Ended =>
                 /\ calls[c].status = "returned"
                 /\ DOMAIN calls[c].ret_data =
                        {cfg.checkers[i].key : i \in 1..NumCheckers}
                 /\ \A k \in DOMAIN calls[c].ret_data :
                        \E i \in 1..NumCheckers :
                            /\ cfg.checkers[i].key = k
                            /\ calls[c].ret_data[k].success =
                                   (calls[c].results[i].kind = "ok")
                            /\ calls[c].ret_data[k].error =
                                   calls[c].results[i].details

\* C5: when a health() call that missed returns, the cache store holds the
\* results it returns and last_check_stamp is no longer the sentinel.
C5_MissPublishes ==
    [][\A c \in CallIds :
          ( /\ calls[c].status # "returned"
            /\ calls'[c].status = "returned"
            /\ ~calls'[c].hit ) =>
              /\ health'.data = calls'[c].ret_data
              /\ health'.last_check_stamp # UNIX_EPOCH]_vars

\* the probes of a run whose future never completes
NeverCompleting(c) == {i \in DOMAIN calls[c].results : calls[c].results[i] = FutNever}

\* C6: a run with a probe that never completes still returns, and its
\* snapshot records a failure with a non-empty (timeout) error under the
\* key of that probe.
C6_NeverCompletingProbeTimesOut ==
    \A c \in CallIds :
        (calls[c].status = "running" /\ NeverCompleting(c) # {})
        ~> ( /\ calls[c].status = "returned"
             /\ \A i \in NeverCompleting(c) :
                    /\ cfg.checkers[i].key \in DOMAIN calls[c].ret_data
                    /\ ~calls[c].ret_data[cfg.checkers[i].key].success
                    /\ calls[c].ret_data[cfg.checkers[i].key].error # "" )

\* C7: health() never fails: no call ends in a panic.
C7_HealthNeverPanics ==
    \A c \in CallIds : calls[c].status # "panicked"

\* C8: every probe that completed has a HealthInfo; its error is empty if
\* and only if its success is true, and a probe that returned Ok has
\* success == true and error == "".
C8_ErrorEmptyIffSuccess ==
    \A c \in CallIds :
        \A i \in Completed(c) :
            /\ i \in DOMAIN calls[c].infos
            /\ (calls[c].infos[i].error = "") <=> calls[c].infos[i].success
            /\ calls[c].results[i].kind = "ok" =>
                   (calls[c].infos[i].success /\ calls[c].infos[i].error = "")

\* C9: when a probe reports a failure with message m, the call returns and
\* the result under that probe's key has success == false, the probe's
\* mandatory flag and error == m.
C9_FailureRecordedVerbatim ==
    \A c \in Ended :
        \A i \in DOMAIN calls[c].results :
            calls[c].results[i].kind = "err" =>
                /\ calls[c].status = "returned"
                /\ cfg.checkers[i].key \in DOMAIN calls[c].ret_data
                /\ calls[c].ret_data[cfg.checkers[i].key] =
                       [key |-> cfg.checkers[i].key,
                        is_mandatory |-> cfg.checkers[i].is_mandatory,
                        success |-> FALSE,
                        error |-> calls[c].results[i].details]

\* C10: a health() call made within cache_duration of an earlier call that
\* returned returns equal results and an equal overall flag.
C10_IdempotentWithinTtl ==
    \A c \in Ended :
        \A d \in calls[c].prior :
            ( /\ calls[d].status = "returned"
              /\ calls[c].start - calls[d].start < cfg.cache_duration ) =>
                /\ calls[c].status = "returned"
                /\ calls[c].ret_data = calls[d].ret_data
                /\ calls[c].ret_ok = calls[d].ret_ok

\* C11: the first health() call ever made on an Actuator is a cache miss,
\* whatever cache_duration is: it invokes the probes and does not return
\* the initial empty snapshot.
C11_FirstCallAlwaysMisses ==
    \A c \in Checked :
        Checked = {c} =>
            /\ ~calls[c].hit
            /\ calls[c].invoked = [i \in 1..NumCheckers |-> i]

\* C12: get_from_cache returns the stored map if and only if the clock is
\* not before the stored stamp and now - stamp <= cache_duration; it
\* returns nothing otherwise, also when the clock reads earlier than the
\* stamp.
C12_ReadIfFreshBoundary ==
    (eval.op = "get_from_cache" /\ eval.done) =>
        /\ eval.cached.some <=>
               ( /\ eval.t >= eval.h.last_check_stamp
                 /\ eval.t - eval.h.last_check_stamp <= eval.d )
        /\ eval.cached.some => eval.cached.data = eval.h.data

\* the keys of the configured probes
ConfiguredKeys == {cfg.checkers[i].key : i \in 1..NumCheckers}

\* C13: every aggregation run ends with one result per configured probe:
\* the keys of the returned results are the configured keys, whatever the
\* probes yield.
C13_OneResultPerProbe ==
    \A c \in Ended \cap Missed :
        /\ calls[c].status = "returned"
        /\ DOMAIN calls[c].ret_data = ConfiguredKeys

\* what the spec calls a configuration without error: no key twice, a
\* positive cache_duration and a positive timeout
ValidConfig(c) ==
    /\ \A i, j \in 1..Len(c.checkers) :
           c.checkers[i].key = c.checkers[j].key => i = j
    /\ c.cache_duration > 0
    /\ c.timeout > 0

\* C14: a configuration error is raised at construction, so no health()
\* call is ever made on an Actuator whose config has a duplicate key or a
\* non-positive cache_duration or timeout.
C14_ConfigErrorsAtConstruction ==
    \A c \in CallIds : calls[c].status # "idle" => ValidConfig(cfg)

\* the environment variable the spec gives each reader as its own
OwnVariable(o) ==
    CASE o = "build_stamp" -> "VERGEN_BUILD_TIMESTAMP"
      [] o = "git_commit_stamp" -> "VERGEN_GIT_COMMIT_TIMESTAMP"
      [] o = "git_commit_id" -> "VERGEN_GIT_SHA"
      [] o = "git_branch" -> "VERGEN_GIT_BRANCH"
      [] o = "rustc_version" -> "VERGEN_RUSTC_SEMVER"
      [] o = "cargo_profile" -> "VERGEN_CARGO_PROFILE"
      [] o = "os" -> "VERGEN_SYSINFO_OS_VERSION"
      [] o = "cpu" -> "VERGEN_SYSINFO_CPU_BRAND"

ReaderDone == eval.op \in Readers /\ eval.done

\* C15, as stated: each metadata reader returns the value of its own
\* environment variable whenever the variable is set, and the empty string
\* when it is unset.
C15_ReaderReturnsValueWhenSet ==
    ReaderDone =>
        LET v == eval.env[OwnVariable(eval.op)]
        IN eval.str = IF v.kind = "unset" THEN "" ELSE v.val

\* C15, amended: each metadata reader returns the value of its own
\* environment variable when the variable is set to valid Unicode, and the
\* empty string when it is unset or set to a value that is not valid
\* Unicode; the other variables have no influence.
C15_ReaderReturnsUnicodeValueOrEmpty ==
    ReaderDone =>
        LET v == eval.env[OwnVariable(eval.op)]
        IN eval.str = IF v.kind = "unicode" THEN v.val ELSE ""

\* a reader has returned the value of its own variable while the variable
\* git_commit_id reads is unset
C15_Witness ==
    /\ ReaderDone
    /\ eval.op = "git_branch"
    /\ eval.env["VERGEN_GIT_BRANCH"] = EnvUnicode("a")
    /\ eval.env["VERGEN_GIT_SHA"] = EnvUnset
    /\ eval.str = "a"

\* C16, as stated: whenever a probe of any call is executing or awaited, no
\* caller at all holds the lock of the store.
C16_NoLockWhileAnyProbeRuns ==
    (\E c \in CallIds : calls[c].status = "running") =>
        readers \cup writers = {}

\* C16, amended: a caller that holds the read or write lock of the store has
\* no probe of its own call invoked, executing or awaited; whoever holds the
\* lock is in its read-compare-copy (or final swap), which may overlap the
\* probes of another call.
C16_NoLockAcrossOwnProbes ==
    \A c \in readers \cup writers :
        /\ calls[c].status = "reading"
        /\ calls[c].invoked = <<>>

\* a call awaits its probes after it released the lock, while another
\* caller is in its read-compare-copy
C16_Witness ==
    \E c, d \in CallIds :
        /\ calls[c].status = "running"
        /\ calls[c].invoked # <<>>
        /\ c \notin readers
        /\ d \in readers

\* two runs that both missed and were in progress at the same time
Overlapping(c, d) ==
    /\ c # d
    /\ c \in Recomputed
    /\ d \in Recomputed
    /\ c \notin calls[d].prior
    /\ d \notin calls[c].prior

\* C17: publish is all-or-nothing and last-writer-wins: in every state the
\* stored snapshot is the initial one or the complete result of one single
\* run, with one entry for every configured key, and once overlapping runs
\* have returned it is the result that one of the runs published.
C17_PublishAllOrNothingLastWriterWins ==
    /\ \/ health = NewHealth
       \/ /\ DOMAIN health.data = ConfiguredKeys
          /\ \E c \in Recomputed : health.data = calls[c].ret_data
    /\ \A c, d \in CallIds :
           Overlapping(c, d) =>
               /\ health.last_check_stamp # UNIX_EPOCH
               /\ \E e \in Recomputed : health.data = calls[e].ret_data

\* C18: two runs whose probes yield the same results return the same map
\* from key to result and the same overall flag, whatever the order in
\* which their probes completed.
C18_DeterministicInCompletionOrder ==
    \A c, d \in Recomputed :
        calls[c].results = calls[d].results =>
            /\ calls[c].ret_data = calls[d].ret_data
            /\ calls[c].ret_ok = calls[d].ret_ok

\* two runs of two probes with different keys, in progress at the same
\* time with their completions interleaved, have returned after the probes
\* yielded the same two different results in both
C18_Witness ==
    \E c, d \in CallIds :
        /\ NumCheckers = 2
        /\ Overlapping(c, d)
        /\ calls[c].results = calls[d].results
        /\ calls[c].results[1] # calls[c].results[2]
        /\ DOMAIN calls[c].ret_data = {"db", "cache"}
        /\ calls[c].ret_data = calls[d].ret_data

\* C19: no health() call modifies the cache store: last_check_stamp is
\* always the UNIX_EPOCH sentinel and the stored map is always empty.
C19_StoreNeverModified ==
    /\ health.last_check_stamp = UNIX_EPOCH
    /\ health.data = <<>>

\* two calls have ended, one of them returned the results of its run, and
\* the store is as it was constructed
C19_Witness ==
    /\ Cardinality(Ended) >= 2
    /\ \E c \in Recomputed : calls[c].ret_data # <<>>
    /\ health.last_check_stamp = UNIX_EPOCH
    /\ health.data = <<>>

\* the last checker in config order that has key k
LastWithKey(k) == Max({i \in 1..NumCheckers : cfg.checkers[i].key = k})

\* C20: a call that misses invokes every configured probe exactly once, in
\* config order, before any of them is awaited; the map it returns has one
\* entry for each key, built from the result of the last checker in config
\* order with that key, and overall is computed from that map.
C20_InvokedOnceInOrderLastKeyWins ==
    \A c \in Missed :
        /\ calls[c].invoked = [i \in 1..NumCheckers |-> i]
        /\ DOMAIN calls[c].results = 1..NumCheckers
        /\ c \in Recomputed =>
             /\ DOMAIN calls[c].ret_data = ConfiguredKeys
             /\ \A k \in ConfiguredKeys :
                    calls[c].ret_data[k] =
                        [key |-> k,
                         is_mandatory |-> cfg.checkers[LastWithKey(k)].is_mandatory,
                         success |-> calls[c].results[LastWithKey(k)].kind = "ok",
                         error |-> calls[c].results[LastWithKey(k)].details]
             /\ calls[c].ret_ok =
                    \A k \in ConfiguredKeys :
                        calls[c].ret_data[k].is_mandatory =>
                            calls[c].ret_data[k].success

\* a run over two checkers with one key has returned one entry, which is
\* not what the first of the two checkers would have given
C20_Witness ==
    \E c \in Recomputed :
        /\ NumCheckers = 2
        /\ Cardinality(ConfiguredKeys) = 1
        /\ calls[c].invoked = <<1, 2>>
        /\ \E k \in ConfiguredKeys :
               calls[c].ret_data[k].is_mandatory # cfg.checkers[1].is_mandatory

====
